---- MODULE Spec2Model ----
(***************************************************************************)
(* PharmaFlow: the demand forecasting engine (src/src/forecasting_engine.py)*)
(* its event loader, feature builder, recursive forecaster and ranking,    *)
(* the report generation of the dashboard (src/dashboard.py) with the      *)
(* tables it reads (src/src/inventory_manager.py), and the sale that       *)
(* changes them (src/src/pos_system.py).                                   *)
(*                                                                         *)
(* Numbers.  Quantities are integers.  A pandas float cell is a record     *)
(* [nan, num, den] (the value num/den, or NaN).  A regressor output is an  *)
(* integer count of halves (out2 = 2 * output).  The accuracy percentage,  *)
(* which the code rounds to one decimal, is an integer count of tenths.    *)
(***************************************************************************)
EXTENDS Integers, Sequences, FiniteSets, TLC

(***************************************************************************)
(* Bounds of the model                                                     *)
(***************************************************************************)
\* longest span, in calendar months, between an entity's first and last sale
MaxSpan == 16
\* largest forecast horizon requested (the dashboard's slider offers 1..6)
MaxAhead == 3
\* largest n passed to get_top_products
MaxN == 3
\* the paged stores hold up to MaxPages full pages, plus one row
MaxPages == 2
\* largest stock level and predicted demand given to the status classification
MaxStock == 100
MaxPredicted == 40

(***************************************************************************)
(* Program constants                                                       *)
(***************************************************************************)
\* forecasting_engine.py:35  page_size = 1000
page_size == 1000
\* forecasting_engine.py:115  if len(monthly_sales) < 15
MinMonths == 15
\* forecasting_engine.py:94  rolling(window=3)
Window == 3
\* forecasting_engine.py:88  shift(12)
SeasonLag == 12

Names == {"A", "B"}
Unknown == "Unknown"
\* the names a caller may ask about: the loaded ones, and one that has no event
QueryNames == Names \cup {Unknown, "Z"}

(***************************************************************************)
(* Calendar                                                                *)
(***************************************************************************)
\* the store keeps transaction_date as text, here its fields <<y, m, d>>;
\* pd.to_datetime (line 68) turns it into a timestamp
to_datetime(s) == [year |-> s[1], month |-> s[2], day |-> s[3]]

\* the ordinal of a timestamp's calendar month
MonthIndex(ts) == ts.year * 12 + (ts.month - 1)

\* the month-start label of month ordinal mi (resample('MS'), freq='MS')
MonthStart(mi) == [year |-> mi \div 12, month |-> (mi % 12) + 1, day |-> 1]

\* a date of the store's text form, from a month ordinal and a day
DateText(mi, d) == <<mi \div 12, (mi % 12) + 1, d>>

\* date-descending order of two store dates (order("transaction_date", desc=True))
DateGeq(a, b) ==
    \/ a[1] > b[1]
    \/ a[1] = b[1] /\ a[2] > b[2]
    \/ a[1] = b[1] /\ a[2] = b[2] /\ a[3] >= b[3]

(***************************************************************************)
(* Sequence helpers                                                        *)
(***************************************************************************)
RECURSIVE SumSeq(_)
SumSeq(s) == IF s = <<>> THEN 0 ELSE Head(s) + SumSeq(Tail(s))

RECURSIVE Concat(_)
Concat(ss) == IF ss = <<>> THEN <<>> ELSE Head(ss) \o Concat(Tail(ss))

Min2(a, b) == IF a <= b THEN a ELSE b
Max2(a, b) == IF a >= b THEN a ELSE b

SetMin(S) == CHOOSE x \in S : \A y \in S : x <= y
SetMax(S) == CHOOSE x \in S : \A y \in S : x >= y

(***************************************************************************)
(* The store: the transactions table, held in the order the loader's query *)
(* asks for (transaction_date descending).  A row is                        *)
(* [transaction_date, quantity, products, batch_id], products being the     *)
(* linked product row or the null linkage, batch_id the id of the batch the *)
(* sale was taken from.                                                     *)
(***************************************************************************)
NoProduct == [linked |-> FALSE, name |-> ""]
Product(n) == [linked |-> TRUE, name |-> n]
\* a row whose batch is not in the batches table (any more)
NoBatch == 0
Row(date, qty, prod) ==
    [transaction_date |-> date, quantity |-> qty, products |-> prod, batch_id |-> NoBatch]

\* pos_system.py lines 45-55: the row process_sale inserts
SaleRow(date, qty, prod, batch_uuid) == [Row(date, qty, prod) EXCEPT !.batch_id = batch_uuid]

\* first sale month of the generated stores: October 2022
StartMonth == 24273
MaxSales == 1
MaxSaleQty == 2

Spans == {0, 1} \cup (SeasonLag .. MaxSpan)
Patterns == {"cycle", "square", "flat"}
Extras == {"none", "B", "orphan", "both"}

\* quantity entity A sells in the month at offset o of its history
QA(pat, o) ==
    CASE pat = "cycle" -> o % 4
      [] pat = "square" -> (o * o) % 5
      [] pat = "flat" -> 2

\* A's rows in the month at offset o: none in a month without sales, unless the
\* month is the first or last of the history; two rows in odd months that sell >= 2
RowsA(span, pat, o) ==
    LET q == QA(pat, o)
        mi == StartMonth + o
    IN  IF q = 0
        THEN IF o = 0 \/ o = span - 1
             THEN <<Row(DateText(mi, 20), 1, Product("A"))>>
             ELSE <<>>
        ELSE IF q >= 2 /\ o % 2 = 1
             THEN <<Row(DateText(mi, 20), 1, Product("A")),
                    Row(DateText(mi, 5), q - 1, Product("A"))>>
             ELSE <<Row(DateText(mi, 20), q, Product("A"))>>

\* B sells in the first two months only; one row has lost its product
RowsB(extra, o) ==
    IF extra \in {"B", "both"} /\ o \in {0, 1}
    THEN <<Row(DateText(StartMonth + o, 12), 3 - 2 * o, Product("B"))>>
    ELSE <<>>

RowsOrphan(extra, o) ==
    IF extra \in {"orphan", "both"} /\ o = 0
    THEN <<Row(DateText(StartMonth, 3), 2, NoProduct)>>
    ELSE <<>>

\* the rows of one month, date descending (days 20, 12, 5, 3)
RowsAt(span, pat, extra, o) ==
    LET a == IF o < span THEN RowsA(span, pat, o) ELSE <<>>
    IN  IF Len(a) = 2
        THEN <<a[1]>> \o RowsB(extra, o) \o <<a[2]>> \o RowsOrphan(extra, o)
        ELSE a \o RowsB(extra, o) \o RowsOrphan(extra, o)

RECURSIVE RowsDown(_, _, _, _)
RowsDown(span, pat, extra, o) ==
    IF o < 0 THEN <<>>
    ELSE RowsAt(span, pat, extra, o) \o RowsDown(span, pat, extra, o - 1)

SmallStore(span, pat, extra) == RowsDown(span, pat, extra, Max2(span, 2) - 1)

SmallStores == {SmallStore(sp, pa, ex) : sp \in Spans, pa \in Patterns, ex \in Extras}

\* the paged stores: n rows dated before the month of the last sales, the row
\* at position orphan (if any) without product, quantities 1 .. cycle in turn
PagedSizes == {n \in {k * page_size + e : k \in 0 .. MaxPages, e \in -1 .. 1} : n >= 0}
OrphanAt == {0, 1, page_size - 1, page_size, page_size + 1, 2 * page_size}

QtyCycles == {2, 3}

PagedStore(n, orphan, cycle) ==
    [i \in 1 .. n |->
        Row(DateText(StartMonth + MinMonths - 2 - i \div 100, 28 - (i % 100) \div 4),
            1 + (i % cycle),
            IF i = orphan THEN NoProduct
            ELSE IF i % 2 = 0 THEN Product("A") ELSE Product("B"))]

PagedStores == {PagedStore(n, k, c) : n \in PagedSizes, k \in OrphanAt, c \in QtyCycles}

\* the stores of the report runs: A sells for 14 or 15 months, B for none, two
\* or 15 months, one row has lost its product
ReportSpan == MinMonths

RowsBLong(b, o) ==
    IF b = "long" /\ o < ReportSpan
    THEN <<Row(DateText(StartMonth + o, 12), 1 + (o % 3), Product("B"))>>
    ELSE IF b = "short" THEN RowsB("B", o) ELSE <<>>

ReportRowsAt(span, pat, b, o) ==
    LET a == IF o < span THEN RowsA(span, pat, o) ELSE <<>>
    IN  IF Len(a) = 2
        THEN <<a[1]>> \o RowsBLong(b, o) \o <<a[2]>> \o RowsOrphan("orphan", o)
        ELSE a \o RowsBLong(b, o) \o RowsOrphan("orphan", o)

RECURSIVE ReportRowsDown(_, _, _, _)
ReportRowsDown(span, pat, b, o) ==
    IF o < 0 THEN <<>>
    ELSE ReportRowsAt(span, pat, b, o) \o ReportRowsDown(span, pat, b, o - 1)

ReportStore(span, pat, b) == ReportRowsDown(span, pat, b, ReportSpan - 1)

ReportStores ==
    {ReportStore(sp, pa, b) : sp \in {ReportSpan - 1, ReportSpan},
                              pa \in {"cycle", "square"},
                              b \in {"none", "short", "long"}}

\* the products table: id and name of every product on sale; C was never sold
ProductsTable ==
    <<[id |-> 1, name |-> "A", requires_prescription |-> TRUE],
      [id |-> 2, name |-> "B", requires_prescription |-> FALSE],
      [id |-> 3, name |-> "C", requires_prescription |-> FALSE]>>

\* forecasting_engine.py line 31: the store answers one request with at most
\* 1000 rows
StoreMaxRows == 1000

Batch(id, product_id, code, qty, expiry) ==
    [id |-> id, product_id |-> product_id, internal_batch_code |-> code,
     quantity_remaining |-> qty, expiry_date |-> expiry]

\* an expiry date, the first day of the k-th month after the last sales
Expiry(k) == DateText(StartMonth + MinMonths - 1 + k, 1)

\* a batches table of n >= 3 rows: batches of C, and as its last three rows a
\* batch of B and two batches of A holding stock, the later row of A expiring
\* first
BatchesTable(n) ==
    [i \in 1 .. n |->
        IF i = n THEN Batch(i, 1, <<"A", 2>>, 2, Expiry(3))
        ELSE IF i = n - 1 THEN Batch(i, 1, <<"A", 1>>, 3, Expiry(6))
        ELSE IF i = n - 2 THEN Batch(i, 2, <<"B", 1>>, 40, Expiry(4))
        ELSE Batch(i, 3, <<"C", i>>, i % 2, Expiry(5))]

SmallBatches == BatchesTable(4)

\* tables that fill one request of the store exactly, and exceed it by one row
LargeBatches == {BatchesTable(n) : n \in {StoreMaxRows, StoreMaxRows + 1}}

\* datetime.now(): the day the dashboard runs, in the month of the last sales
Now == DateText(StartMonth + ReportSpan - 1, 28)

NoReport == [state |-> "none"]

DateDescending(t) == \A i \in 1 .. Len(t) - 1 : DateGeq(t[i].transaction_date, t[i + 1].transaction_date)

(***************************************************************************)
(* State                                                                   *)
(***************************************************************************)
VARIABLES
    transactions,   \* the store's transactions table
    pc,             \* "loading" while _load_data_from_db pages, then "ready"
    all_data,       \* _load_data_from_db: the rows collected so far
    offset,         \* _load_data_from_db: the offset of the next page
    requests,       \* the page requests issued so far, <<from, to>> each
    df,             \* ForecastingEngine.df, the loaded event table
    regressor,      \* the behaviour of the regression library
    last,           \* the engine's last call: its arguments and what it returned
    repeat,         \* "same" or "differs" when the last call repeated the one
                    \* before, "other" when it followed a different call
    row,            \* the report loop's current row: stock, predicted demand, status
    load_error,     \* TRUE once _load_data_from_db caught an exception
    products,       \* the store's products table
    batches,        \* the store's batches table
    sales,          \* the sales this process recorded since its engines were loaded
    report,         \* the last run of the report generation and what it stored
    calls           \* per session: the inventory or sale call it is in, or made last

shop == <<products, batches, sales, report>>

vars == <<transactions, pc, all_data, offset, requests, df, regressor, last, repeat, row,
          load_error, products, batches, sales, report, calls>>

(***************************************************************************)
(* Event loader: ForecastingEngine._load_data_from_db                      *)
(***************************************************************************)
\* db.table("transactions")...range(from, to).execute(): rows from..to, 0-based
\* and inclusive, of the ordered table, cut at its end
Range(table, from, to) ==
    IF from + 1 > Len(table) THEN <<>>
    ELSE SubSeq(table, from + 1, Min2(to + 1, Len(table)))

\* lines 50-58: one event per row; a row without product is named "Unknown"
ToEvent(r) ==
    [Date |-> r.transaction_date,
     Qty_Sold |-> r.quantity,
     Product_Name |-> IF r.products.linked THEN r.products.name ELSE Unknown]

\* a loader that drops the rows without product
AppendChunkLinked(all, chunk) ==
    all \o LET linked == SelectSeq(chunk, LAMBDA r : r.products.linked)
           IN  [i \in 1 .. Len(linked) |-> ToEvent(linked[i])]

\* lines 50-58: every row of the page is appended
AppendChunk(all, chunk) == all \o [i \in 1 .. Len(chunk) |-> ToEvent(chunk[i])]

\* lines 66-69: pd.DataFrame(all_data), the Date column converted
DataFrame(all) ==
    [i \in 1 .. Len(all) |->
        [Date |-> to_datetime(all[i].Date),
         Qty_Sold |-> all[i].Qty_Sold,
         Product_Name |-> all[i].Product_Name]]

\* a loop that also ends on a full page
LastPageInclusive(chunk) == Len(chunk) <= page_size

\* line 60: the loop ends on a page shorter than the page size
LastPage(chunk) == Len(chunk) < page_size

\* a loop that moves on by one row less than a page
NextOffsetShort(from) == from + page_size - 1

\* line 64: offset += page_size
NextOffset(from) == from + page_size

NoCall == [op |-> "none"]

\* one turn of the while loop (lines 38-64) and, when it breaks, lines 66-69
LoadPage ==
    /\ pc = "loading"
    /\ \E chunk \in {Range(transactions, offset, offset + page_size - 1)} :
       \E all \in {AppendChunk(all_data, chunk)} :
           /\ requests' = Append(requests, <<offset, offset + page_size - 1>>)
           /\ IF chunk = <<>>
              THEN /\ pc' = "ready"
                   /\ df' = DataFrame(all_data)
                   /\ UNCHANGED <<all_data, offset>>
              ELSE /\ all_data' = all
                   /\ IF LastPage(chunk)
                      THEN /\ pc' = "ready"
                           /\ df' = DataFrame(all)
                           /\ UNCHANGED offset
                      ELSE /\ offset' = NextOffset(offset)
                           /\ UNCHANGED <<pc, df>>
    /\ UNCHANGED <<transactions, regressor, last, repeat, row, load_error, shop, calls>>

\* lines 71-73: a page request raises; the exception is caught, the rows
\* collected so far are dropped and an empty DataFrame is returned
FailPage ==
    /\ pc = "loading"
    /\ requests' = Append(requests, <<offset, offset + page_size - 1>>)
    /\ pc' = "ready"
    /\ df' = <<>>
    /\ load_error' = TRUE
    /\ UNCHANGED <<transactions, all_data, offset, regressor, last, repeat, row, shop, calls>>

(***************************************************************************)
(* Feature builder: ForecastingEngine.create_features                      *)
(***************************************************************************)
NaN == [nan |-> TRUE, num |-> 0, den |-> 1]
Cell(num, den) == [nan |-> FALSE, num |-> num, den |-> den]

\* Series.shift(k): the value k rows earlier, NaN in the first k rows
Shift(col, k) == [i \in 1 .. Len(col) |-> IF i > k THEN Cell(col[i - k], 1) ELSE NaN]

\* Series.rolling(window=w).mean(): the mean of the w cells ending at the row,
\* NaN when the window is not full or holds a NaN
RollingMean(cells, w) ==
    [i \in 1 .. Len(cells) |->
        IF i >= w /\ \A j \in (i - w + 1) .. i : ~cells[j].nan
        THEN Cell(SumSeq([j \in 1 .. w |-> cells[i - w + j].num]), w)
        ELSE NaN]

QtyColumn(frame) == [i \in 1 .. Len(frame) |-> frame[i].Qty_Sold]

\* a rolling mean over the column itself: the month's own quantity is in its window
RollingInputCurrent(qty) == Shift(qty, 0)

\* line 94: the rolling window runs over shift(1), the months before the row
RollingInput(qty) == Shift(qty, 1)

\* lines 75-96
create_features(frame) ==
    LET qty == QtyColumn(frame)
        lag12 == Shift(qty, SeasonLag)
        lag1 == Shift(qty, 1)
        roll == RollingMean(RollingInput(qty), Window)
    IN  [i \in 1 .. Len(frame) |->
            [Date |-> frame[i].Date,
             Qty_Sold |-> frame[i].Qty_Sold,
             Month |-> frame[i].Date.month,
             Year |-> frame[i].Date.year,
             Lag_12 |-> lag12[i],
             Lag_1 |-> lag1[i],
             Rolling_Mean_3 |-> roll[i]]]

\* a dropna that looks at the recent-history columns only
HasNaNRecent(r) == r.Lag_1.nan \/ r.Rolling_Mean_3.nan

HasNaN(r) == r.Lag_12.nan \/ r.Lag_1.nan \/ r.Rolling_Mean_3.nan

\* line 122: dropna(inplace=True)
dropna(rows) == SelectSeq(rows, LAMBDA r : ~HasNaN(r))

(***************************************************************************)
(* The regression library (xgboost): fit is a deterministic function of    *)
(* the training rows, predict of the fitted model and one feature row.     *)
(* The variable regressor picks which function; outputs are in halves.     *)
(***************************************************************************)
Regressors == {"low", "mean", "lag1", "season", "rolling", "trend"}

\* lines 132-138: model.fit(X, y)
Fit(kind, X, y) == [kind |-> kind, n |-> Len(y), sum |-> SumSeq(y)]

\* lines 142, 179: model.predict(row), twice the value it returns
Predict(model, x) ==
    CASE model.kind = "low" -> -3
      [] model.kind = "mean" -> (2 * model.sum) \div model.n
      [] model.kind = "lag1" -> 2 * x.Lag_1.num + 1
      [] model.kind = "season" -> 2 * x.Lag_12.num - 1
      [] model.kind = "rolling" -> (2 * x.Rolling_Mean_3.num) \div x.Rolling_Mean_3.den
      [] model.kind = "trend" -> 4 * x.Lag_1.num - 2 * x.Lag_12.num

\* int(x) of a float given in halves: truncation toward zero
IntOfHalves(out2) == IF out2 >= 0 THEN out2 \div 2 ELSE -((-out2) \div 2)

\* the truncation without the floor at 0
ClampQtyUnfloored(out2) == IntOfHalves(out2)

\* line 180: max(0, int(pred_qty))
ClampQty(out2) == Max2(0, IntOfHalves(out2))

(***************************************************************************)
(* Accuracy (lines 142-146, 194), in tenths of a percent.                  *)
(* rmse / avg_sales = sqrt(sse4 * n) / (2 * sum), sse4 the squared error   *)
(* in quarters; round(100 * (1 - ratio), 1) >= t / 10 exactly when         *)
(* 10^6 * sse4 * n <= (sum * (2001 - 2 t))^2.                              *)
(***************************************************************************)
Sq(a) == a * a

ReachesTenth(sse4, n, sum, t) == 1000000 * sse4 * n <= Sq(sum * (2001 - 2 * t))

RECURSIVE LargestTenth(_, _, _, _, _)
LargestTenth(sse4, n, sum, lo, hi) ==
    IF lo = hi THEN lo
    ELSE LET mid == (lo + hi + 1) \div 2
         IN  IF ReachesTenth(sse4, n, sum, mid)
             THEN LargestTenth(sse4, n, sum, mid, hi)
             ELSE LargestTenth(sse4, n, sum, lo, mid - 1)

\* max(0, 100 * (1 - rmse / avg_sales)), rounded; a zero average divides to
\* inf or nan, and max(0, .) of either is 0
AccuracyTenths(y, out2) ==
    LET n == Len(y)
        sum == SumSeq(y)
        sse4 == SumSeq([i \in 1 .. n |-> Sq(2 * y[i] - out2[i])])
    IN  IF sum = 0 \/ sse4 * n > 4 * Sq(sum) THEN 0
        ELSE LargestTenth(sse4, n, sum, 0, 1000)

(***************************************************************************)
(* ForecastingEngine.predict_demand                                        *)
(***************************************************************************)
NamesIn(frame) == {frame[i].Product_Name : i \in 1 .. Len(frame)}

\* line 103: the rows of the product
FilterProduct(frame, name) == SelectSeq(frame, LAMBDA r : r.Product_Name = name)

\* an aggregation with rows for the months that have events only
ResampleSparse(prod_data) ==
    LET months == {MonthIndex(prod_data[i].Date) : i \in 1 .. Len(prod_data)}
        RECURSIVE up(_)
        up(rest) ==
            IF rest = {} THEN <<>>
            ELSE LET m == SetMin(rest)
                 IN  <<[Date |-> MonthStart(m),
                        Qty_Sold |-> SumSeq(QtyColumn(
                            SelectSeq(prod_data, LAMBDA r : MonthIndex(r.Date) = m)))]>>
                     \o up(rest \ {m})
    IN  up(months)

\* line 110: set_index('Date').resample('MS')['Qty_Sold'].sum(): one row per
\* calendar month from the first to the last month that has a row, the sum of
\* the month's quantities in it (0 for a month without rows)
Resample(prod_data) ==
    LET months == {MonthIndex(prod_data[i].Date) : i \in 1 .. Len(prod_data)}
        lo == SetMin(months)
        hi == SetMax(months)
    IN  [k \in 1 .. (hi - lo + 1) |->
            [Date |-> MonthStart(lo + k - 1),
             Qty_Sold |-> SumSeq(QtyColumn(
                 SelectSeq(prod_data, LAMBDA r : MonthIndex(r.Date) = lo + k - 1)))]]

\* a threshold that also refuses a history of exactly 15 months
TooShortInclusive(monthly_sales) == Len(monthly_sales) <= MinMonths

\* line 115
TooShort(monthly_sales) == Len(monthly_sales) < MinMonths

\* a date range that starts at the last month of the series itself
FutureDatesFromLast(monthly_sales, months_ahead) ==
    [k \in 1 .. months_ahead |->
        MonthStart(MonthIndex(monthly_sales[Len(monthly_sales)].Date) + k - 1)]

\* lines 150-154: the months_ahead month starts after the last month of the series
FutureDates(monthly_sales, months_ahead) ==
    [k \in 1 .. months_ahead |->
        MonthStart(MonthIndex(monthly_sales[Len(monthly_sales)].Date) + k)]

\* a loop that takes the seasonal lag one row too far back (iloc[-13])
NextInputLate(history, date) ==
    LET n == Len(history)
        tail == SubSeq(history, Max2(1, n - Window + 1), n)
    IN  [Month |-> date.month,
         Year |-> date.year,
         Lag_12 |-> Cell(IF n > SeasonLag THEN history[n - SeasonLag].Qty_Sold ELSE 0, 1),
         Lag_1 |-> Cell(history[n].Qty_Sold, 1),
         Rolling_Mean_3 |-> Cell(SumSeq(QtyColumn(tail)), Len(tail))]

\* lines 166-176: the feature row of the next month, from the running history
NextInput(history, date) ==
    LET n == Len(history)
        tail == SubSeq(history, Max2(1, n - Window + 1), n)
    IN  [Month |-> date.month,
         Year |-> date.year,
         Lag_12 |-> Cell(IF n > SeasonLag THEN history[n - SeasonLag + 1].Qty_Sold ELSE 0, 1),
         Lag_1 |-> Cell(history[n].Qty_Sold, 1),
         Rolling_Mean_3 |-> Cell(SumSeq(QtyColumn(tail)), Len(tail))]

\* a loop that drops the concatenated frame: the history never grows
ExtendDropped(history, date, pred_qty) == history

\* lines 185-186: the prediction becomes the last row of the running history
Extend(history, date, pred_qty) == Append(history, [Date |-> date, Qty_Sold |-> pred_qty])

\* lines 160-186: the recursive loop, from step k on; it returns the forecast
\* values, the feature rows it built, the raw outputs and the final history
RECURSIVE ForecastLoop(_, _, _, _)
ForecastLoop(model, history, dates, k) ==
    IF k > Len(dates)
    THEN [values |-> <<>>, inputs |-> <<>>, raw |-> <<>>, history |-> history]
    ELSE LET next_input == NextInput(history, dates[k])
             out2 == Predict(model, next_input)
             pred_qty == ClampQty(out2)
             rest == ForecastLoop(model, Extend(history, dates[k], pred_qty), dates, k + 1)
         IN  [values |-> <<pred_qty>> \o rest.values,
              inputs |-> <<next_input>> \o rest.inputs,
              raw |-> <<out2>> \o rest.raw,
              history |-> rest.history]

EarlyExit(name, months_ahead, message, steps) ==
    [op |-> "predict_demand", product_name |-> name, months_ahead |-> months_ahead,
     raised |-> "", none |-> TRUE, forecast_df |-> <<>>, message |-> message,
     avg_sales |-> 0, accuracy |-> 0, steps |-> steps,
     monthly_sales |-> <<>>, features |-> <<>>, training |-> <<>>,
     inputs |-> <<>>, raw |-> <<>>,
     history |-> <<>>]

\* a call that raises returns nothing
Raised(name, months_ahead, error) ==
    [EarlyExit(name, months_ahead, "", {}) EXCEPT !.raised = error, !.none = FALSE]

\* lines 66, 73: a table loaded from no rows is pd.DataFrame([]) or
\* pd.DataFrame(), a frame without columns
HasColumn(frame, column) == frame # <<>>

\* lines 98-194.  The record holds what the call returns (none, forecast_df,
\* message or avg_sales, accuracy), or the error it raises, and what it
\* computed on the way.  Line 103 reads self.df['Product_Name'], a KeyError on
\* a frame that has no such column.
\* a mean over every month of the series
MeanRowsAll(monthly_sales, training) == monthly_sales

\* lines 125, 142: y is the target of the training rows, avg_sales = y.mean()
MeanRows(monthly_sales, training) == training

\* line 194: int(avg_sales)
IntMean(rows) == SumSeq(QtyColumn(rows)) \div Len(rows)

predict_demand(frame, kind, name, months_ahead) ==
    IF ~HasColumn(frame, "Product_Name")
    THEN Raised(name, months_ahead, "KeyError")
    ELSE
    LET prod_data == FilterProduct(frame, name)
    IN  IF prod_data = <<>>
        THEN EarlyExit(name, months_ahead, "Not enough data", {"filter"})
        ELSE
        LET monthly_sales == Resample(prod_data)
        IN  IF TooShort(monthly_sales)
            THEN [EarlyExit(name, months_ahead,
                            "Requires >15 months of history for high accuracy",
                            {"filter", "resample"})
                  EXCEPT !.monthly_sales = monthly_sales]
            ELSE
            LET data_with_features == dropna(create_features(monthly_sales))
                y == QtyColumn(data_with_features)
                model == Fit(kind, data_with_features, y)
                predictions == [i \in 1 .. Len(y) |-> Predict(model, data_with_features[i])]
                future_dates == FutureDates(monthly_sales, months_ahead)
                loop == ForecastLoop(model, monthly_sales, future_dates, 1)
            IN  [op |-> "predict_demand", product_name |-> name,
                 months_ahead |-> months_ahead,
                 raised |-> "", none |-> FALSE,
                 forecast_df |-> [k \in 1 .. months_ahead |->
                                    [Date |-> future_dates[k],
                                     Predicted_Demand |-> loop.values[k]]],
                 message |-> "",
                 avg_sales |-> IntMean(MeanRows(monthly_sales, data_with_features)),
                 accuracy |-> AccuracyTenths(y, predictions),
                 steps |-> {"filter", "resample", "features", "fit", "accuracy", "forecast"},
                 monthly_sales |-> monthly_sales,
                 features |-> create_features(monthly_sales),
                 training |-> data_with_features,
                 inputs |-> loop.inputs,
                 raw |-> loop.raw,
                 history |-> loop.history]

\* a predict_demand that works on self.df itself: the forecast rows stay in it
FrameAfterPredictShared(frame, result) ==
    frame \o [k \in 1 .. Len(result.forecast_df) |->
                [Date |-> result.forecast_df[k].Date,
                 Qty_Sold |-> result.forecast_df[k].Predicted_Demand,
                 Product_Name |-> result.product_name]]

\* predict_demand copies what it works on (lines 103, 158): self.df is as before
FrameAfterPredict(frame, result) == frame

\* whether a call repeats the call before it, and with what outcome
SameCall(call, name, months_ahead) ==
    /\ call.op = "predict_demand"
    /\ call.product_name = name
    /\ call.months_ahead = months_ahead

PredictDemand ==
    /\ pc = "ready"
    /\ \E name \in QueryNames, months_ahead \in 1 .. MaxAhead :
          LET result == predict_demand(df, regressor, name, months_ahead)
          IN  /\ last' = result
              /\ df' = FrameAfterPredict(df, result)
              /\ repeat' = IF SameCall(last, name, months_ahead)
                            THEN IF result = last THEN "same" ELSE "differs"
                            ELSE IF last = NoCall THEN "first" ELSE "other"
    /\ UNCHANGED <<transactions, pc, all_data, offset, requests, regressor, row, load_error, shop, calls>>

\* create_features (lines 75-96) on the monthly series of an entity, and the
\* rows dropna (line 122) keeps of it
CreateFeatures ==
    /\ pc = "ready"
    /\ \E name \in NamesIn(df) :
          LET monthly_sales == Resample(FilterProduct(df, name))
          IN  last' = [op |-> "create_features",
                       monthly_sales |-> monthly_sales,
                       features |-> create_features(monthly_sales),
                       training |-> dropna(create_features(monthly_sales))]
    /\ repeat' = "first"
    /\ UNCHANGED <<transactions, pc, all_data, offset, requests, df, regressor, row, load_error, shop, calls>>

(***************************************************************************)
(* ForecastingEngine.predict_next_month_allocation, lines 213-225          *)
(***************************************************************************)
\* the allocation from the result of predict_demand(name, months_ahead=1)
Allocation(result) ==
    [op |-> "predict_next_month_allocation", product_name |-> result.product_name,
     raised |-> result.raised,
     result |-> IF result.raised # "" THEN <<>>
                ELSE IF result.none \/ result.forecast_df = <<>> THEN <<0, 0>>
                ELSE <<result.forecast_df[1].Predicted_Demand, result.accuracy>>]

predict_next_month_allocation(frame, kind, product_name) ==
    Allocation(predict_demand(frame, kind, product_name, 1))

PredictNextMonthAllocation ==
    /\ pc = "ready"
    /\ \E product_name \in QueryNames :
          last' = predict_next_month_allocation(df, regressor, product_name)
    /\ repeat' = "first"
    /\ UNCHANGED <<transactions, pc, all_data, offset, requests, df, regressor, row,
                   load_error, shop, calls>>

(***************************************************************************)
(* ForecastingEngine.get_top_products                                      *)
(***************************************************************************)
\* lines 204-205: groupby('Product_Name')['Qty_Sold'].sum()
TotalSold(frame, name) == SumSeq(QtyColumn(FilterProduct(frame, name)))

\* the ascending sort
InOrderAscending(a, b) == a <= b

\* line 206: sort_values(ascending=False) puts the larger total first
InOrder(a, b) == a >= b

\* the orders sort_values may give the groups: every name once, totals in
\* order; names of equal total come in an order the sort chooses
SortedOrders(frame) ==
    LET names == NamesIn(frame)
        k == Cardinality(names)
    IN  {s \in [1 .. k -> names] :
            /\ \A i, j \in 1 .. k : i # j => s[i] # s[j]
            /\ \A i \in 1 .. k - 1 :
                  InOrder(TotalSold(frame, s[i]), TotalSold(frame, s[i + 1]))}

\* line 207: head(n), n >= 0
head(s, n) == SubSeq(s, 1, Min2(n, Len(s)))

\* lines 196-211
GetTopProducts ==
    /\ pc = "ready"
    /\ \E n \in 0 .. MaxN :
          IF df = <<>>
          THEN last' = [op |-> "get_top_products", n |-> n, top_products |-> <<>>]
          ELSE \E order \in SortedOrders(df) :
                  last' = [op |-> "get_top_products", n |-> n,
                           top_products |-> head(order, n)]
    /\ repeat' = "first"
    /\ UNCHANGED <<transactions, pc, all_data, offset, requests, df, regressor, row, load_error, shop, calls>>

(***************************************************************************)
(* Status classification of a report row: dashboard.py lines 521-528       *)
(***************************************************************************)
\* the classification without the guard against near-zero demand
StatusUnguarded(current_stock, total_predicted_qty) ==
    LET deficit == current_stock - total_predicted_qty
    IN  IF deficit < 0 THEN "Understock"
        ELSE IF deficit > (total_predicted_qty * 2) THEN "Overstocked"
             ELSE "Sufficient"

Status(current_stock, total_predicted_qty) ==
    LET deficit == current_stock - total_predicted_qty
    IN  IF deficit < 0 THEN "Understock"
        ELSE IF deficit > (total_predicted_qty * 2) /\ total_predicted_qty > 5
             THEN "Overstocked"
             ELSE "Sufficient"

NoRow == [current_stock |-> 0, total_predicted_qty |-> 0, status |-> ""]

\* the loop body from line 521 on, for the stock and demand computed before it
Classify ==
    /\ row.status = ""
    /\ row' = [row EXCEPT !.status = Status(row.current_stock, row.total_predicted_qty)]
    /\ UNCHANGED <<transactions, pc, all_data, offset, requests, df, regressor, last, repeat,
                   load_error, shop, calls>>

(***************************************************************************)
(* Point of sale: POS_System.process_sale, pos_system.py lines 18-64       *)
(***************************************************************************)
\* the batch codes and quantities the pharmacist enters
SaleCodes == {<<"A", 1>>, <<"B", 1>>, <<"Z", 1>>}

\* the products(name) join of a transactions row, by the row's product_id
ProductOf(prods, product_id) ==
    LET found == {i \in DOMAIN prods : prods[i].id = product_id}
    IN  IF found = {} THEN NoProduct ELSE Product(prods[SetMin(found)].name)

\* a sale that goes through: the batch is found by its code (.single()), holds
\* the quantity, the transaction dated now is inserted and the batch decremented;
\* a sale that returns early (lines 31-33, 39-41) or raises (62-63) changes nothing
ProcessSale ==
    /\ pc = "ready"
    /\ sales < MaxSales
    /\ \E batch_id \in SaleCodes, qty \in 1 .. MaxSaleQty :
          LET found == {i \in DOMAIN batches : batches[i].internal_batch_code = batch_id}
          IN  /\ Cardinality(found) = 1
              /\ LET i == SetMin(found)
                     current_qty == batches[i].quantity_remaining
                 IN  /\ ~(current_qty < qty)
                     /\ transactions' =
                            <<SaleRow(Now, qty, ProductOf(products, batches[i].product_id),
                                      batches[i].id)>>
                               \o transactions
                     /\ batches' = [batches EXCEPT ![i].quantity_remaining = current_qty - qty]
    /\ sales' = sales + 1
    /\ UNCHANGED <<pc, all_data, offset, requests, df, regressor, last, repeat, row,
                   load_error, products, report, calls>>

(***************************************************************************)
(* Report generation: dashboard.py lines 457-551                           *)
(***************************************************************************)
\* line 480: get_top_products(n=50)
TopN == 50

MonthNames ==
    <<"January", "February", "March", "April", "May", "June", "July", "August",
      "September", "October", "November", "December">>

\* strftime("%B %Y"): the month's name and the year
strftime(ts) == <<MonthNames[ts.month], ts.year>>

\* lines 470-471: pd.date_range(start=now + 1 month, periods, freq='MS'), the
\* month starts from the first one not before the start
MonthOptions(now, months_ahead) ==
    LET start == MonthIndex(to_datetime(now)) + 1
        first == IF now[3] = 1 THEN start ELSE start + 1
    IN  [k \in 1 .. months_ahead |-> strftime(MonthStart(first + k - 1))]

\* line 472: the cumulative view and one view per month option
CumulativeView(months_ahead) == <<"Cumulative", months_ahead>>

ViewOptions(now, months_ahead) ==
    {CumulativeView(months_ahead)} \cup
    {MonthOptions(now, months_ahead)[k] : k \in 1 .. months_ahead}

\* line 497: "Cumulative" in selected_view
IsCumulative(selected_view) == selected_view[1] = "Cumulative"

\* a view that takes the first forecast point for any selected month
TotalPredictedFirst(forecast_df, selected_view) ==
    IF IsCumulative(selected_view)
    THEN SumSeq([k \in 1 .. Len(forecast_df) |-> forecast_df[k].Predicted_Demand])
    ELSE forecast_df[1].Predicted_Demand

\* lines 497-510: the sum of the points, or the point of the selected month, or 0
TotalPredicted(forecast_df, selected_view) ==
    IF IsCumulative(selected_view)
    THEN SumSeq([k \in 1 .. Len(forecast_df) |-> forecast_df[k].Predicted_Demand])
    ELSE LET match == SelectSeq(forecast_df, LAMBDA r : strftime(r.Date) = selected_view)
         IN  IF match # <<>> THEN match[1].Predicted_Demand ELSE 0

\* db.table(...).select("*").execute(): the rows of one request, no paging
SelectAll(table) == SubSeq(table, 1, Min2(Len(table), StoreMaxRows))

\* inventory_manager.py lines 157-166
products_df(table) == SelectAll(table)

\* inventory_manager.py lines 168-190: the batches, columns renamed
inventory_df(table) ==
    LET data == SelectAll(table)
    IN  [i \in 1 .. Len(data) |->
            [Batch_ID |-> data[i].internal_batch_code,
             Product_ID |-> data[i].product_id,
             Qty |-> data[i].quantity_remaining]]

\* line 519: the Qty column of the product's batches, summed
CurrentStock(inv, p_id) ==
    SumSeq(LET rows == SelectSeq(inv, LAMBDA b : b.Product_ID = p_id)
           IN  [i \in 1 .. Len(rows) |-> rows[i].Qty])

\* a loop that reports every ranked entity
SkippedNever(result) == FALSE

\* line 491: forecast_df is None or forecast_df.empty
Skipped(result) == result.none \/ result.forecast_df = <<>>

\* lines 132-140: the regression library may raise while it fits or predicts
\* (fault): the call that reached the training raises instead of returning
Outcome(result, fault) ==
    IF fault /\ result.raised = "" /\ ~result.none
    THEN Raised(result.product_name, result.months_ahead, "XGBoostError")
    ELSE result

\* lines 512-538: the stock of the entity's product and the row of the report
ReportRow(before, result, total_predicted_qty, prod_row, inv) ==
    IF prod_row = <<>> THEN before
    ELSE IF ~HasColumn(inv, "Product_ID")
    THEN [before EXCEPT !.raised = "KeyError", !.at = result.product_name]
    ELSE LET current_stock == CurrentStock(inv, prod_row[1].id)
         IN  [before EXCEPT !.report_data =
                 Append(@, [Medicine |-> result.product_name,
                            Current_Stock |-> current_stock,
                            Predicted_Demand |-> total_predicted_qty,
                            Status |-> Status(current_stock, total_predicted_qty),
                            Model_Confidence |-> result.accuracy])]

\* lines 486-538: one turn of the loop, for the entity's predict_demand result;
\* an exception ends the loop
ReportStep(before, result, selected_view, prods, inv) ==
    IF before.raised # "" THEN before
    ELSE IF result.raised # ""
    THEN [before EXCEPT !.raised = result.raised, !.at = result.product_name]
    ELSE IF Skipped(result) THEN before
    ELSE IF ~HasColumn(prods, "name")
    THEN [before EXCEPT !.raised = "KeyError", !.at = result.product_name]
    ELSE ReportRow(before, result, TotalPredicted(result.forecast_df, selected_view),
                   SelectSeq(prods, LAMBDA r : r.name = result.product_name), inv)

\* the loop over the first k ranked entities
RECURSIVE ReportLoop(_, _, _, _, _, _, _, _, _)
ReportLoop(frame, kind, faults, months_ahead, selected_view, ranked, prods, inv, k) ==
    IF k = 0 THEN [report_data |-> <<>>, raised |-> "", at |-> ""]
    ELSE ReportStep(ReportLoop(frame, kind, faults, months_ahead, selected_view,
                               ranked, prods, inv, k - 1),
                    Outcome(predict_demand(frame, kind, ranked[k], months_ahead),
                            ranked[k] \in faults),
                    selected_view, prods, inv)

\* an engine constructed anew for the run, over the store as it is
ReportFrameFresh(frame, store) == DataFrame(AppendChunk(<<>>, store))

\* lines 15-25: load_engines is cached (@st.cache_resource); every run uses the
\* engine constructed when the process started and the table it loaded then
ReportFrame(frame, store) == frame

\* one press of "Generate Forecast Report", lines 476-551; the model follows a
\* dashboard session up to its first report run
GenerateReport ==
    /\ pc = "ready"
    /\ report = NoReport
    /\ \E months_ahead \in 1 .. MaxAhead :
       \E selected_view \in ViewOptions(Now, months_ahead) :
          LET frame == ReportFrame(df, transactions)
          IN  \E order \in (IF frame = <<>> THEN {<<>>} ELSE SortedOrders(frame)) :
                 LET products_to_forecast == head(order, TopN)
                     run == [months_ahead |-> months_ahead,
                             selected_view |-> selected_view,
                             ranked |-> products_to_forecast,
                             events |-> Len(frame),
                             sales_before |-> sales]
                 IN  \E faults \in {{}} \cup {{n} : n \in Names \cap NamesIn(frame)} :
                        LET out == ReportLoop(frame, regressor, faults, months_ahead,
                                              selected_view, products_to_forecast,
                                              products_df(products), inventory_df(batches),
                                              Len(products_to_forecast))
                        IN  report' =
                               IF products_to_forecast = <<>>
                               THEN [state |-> "warning", run |-> run, rows |-> <<>>,
                                     raised |-> "", at |-> ""]
                               ELSE IF out.raised # ""
                               THEN [state |-> "raised", run |-> run, rows |-> <<>>,
                                     raised |-> out.raised, at |-> out.at]
                               ELSE [state |-> "stored", run |-> run,
                                     rows |-> out.report_data, raised |-> "", at |-> ""]
    /\ UNCHANGED <<transactions, pc, all_data, offset, requests, df, regressor, last, repeat,
                   row, load_error, products, batches, sales, calls>>

(***************************************************************************)
(* Inventory and point of sale, one store call at a time:                  *)
(* InventoryManager.get_batch_to_sell and add_batch (inventory_manager.py),*)
(* POS_System.process_sale (pos_system.py).  Each session (a dashboard or  *)
(* a command-line process) makes its calls one after the other; the store  *)
(* serves the requests of all sessions in any order.                       *)
(***************************************************************************)
\* the sessions that use the store at the same time
Clerks == {"c1", "c2"}

\* the calls the sessions make in all
MaxOps == 2

\* the names searched for with the quantities asked for, the products
\* restocked and the quantities received
Queries == {<<"A", 2>>, <<"A", 3>>, <<"A", 6>>, <<"C", 2>>, <<"Z", 2>>}
AddNames == {"A", "Z"}
AddQuantities == {1}

NoMatch == [id |-> 0, name |-> "", requires_prescription |-> FALSE]

\* inventory_manager.py lines 17-30: the first product whose name matches
\* %search_term%, or None; the names and the search terms of the model are
\* whole names, which match when they are equal
get_product_by_search(prods, search_term) ==
    LET found == {i \in DOMAIN prods : prods[i].name = search_term}
    IN  IF found = {} THEN NoMatch ELSE prods[SetMin(found)]

\* lines 98-101: the batches of the product that hold stock
StockedBatches(table, p_id) ==
    SelectSeq(table, LAMBDA b : b.product_id = p_id /\ b.quantity_remaining > 0)

\* an order by expiry date with the latest first
FirstRowsLatest(my_batches) ==
    {i \in DOMAIN my_batches :
        \A j \in DOMAIN my_batches :
            DateGeq(my_batches[i].expiry_date, my_batches[j].expiry_date)}

\* lines 102, 115: the rows that order("expiry_date", desc=False) may put
\* first, those no other row expires before
FirstRows(my_batches) ==
    {i \in DOMAIN my_batches :
        \A j \in DOMAIN my_batches :
            DateGeq(my_batches[j].expiry_date, my_batches[i].expiry_date)}

\* a returned error string: no recommendation comes with it
Refusal(text) ==
    [error |-> text, Product |-> "", Sell_From_Batch |-> <<>>, Batch_UUID |-> NoBatch,
     Compliance_Check |-> ""]

\* lines 80-131: what the call may return over the tables as they are.
\* Days_Until_Expiry, a display value taken from the clock, is left out.
get_batch_to_sell(prods, table, user_input_name, qty_needed) ==
    LET product == get_product_by_search(prods, user_input_name)
    IN  IF product = NoMatch
        THEN {Refusal("ERROR: Product not found in catalog")}
        ELSE
        LET my_batches == StockedBatches(table, product.id)
            total_stock == SumSeq([i \in DOMAIN my_batches |->
                                     my_batches[i].quantity_remaining])
        IN  IF my_batches = <<>>
            THEN {Refusal("OUT OF STOCK")}
            ELSE IF total_stock < qty_needed
            THEN {Refusal("INSUFFICIENT STOCK")}
            ELSE {[error |-> "",
                   Product |-> product.name,
                   Sell_From_Batch |-> my_batches[i].internal_batch_code,
                   Batch_UUID |-> my_batches[i].id,
                   Compliance_Check |-> IF product.requires_prescription
                                        THEN "VERIFY PRESCRIPTION"
                                        ELSE "OTC - Safe to Sell"] :
                     i \in FirstRows(my_batches)}

\* a session between calls, before its first
Idle ==
    [pc |-> "idle", op |-> "none", ops |-> 0, name |-> "", batch_id |-> <<>>, qty |-> 0,
     from_recommendation |-> FALSE, result |-> Refusal(""), outcome |-> "",
     batch_uuid |-> NoBatch, product_id |-> 0, current_qty |-> 0, code |-> <<>>]

NoCalls == [c \in Clerks |-> Idle]

\* the calls started so far by the sessions in S
RECURSIVE Started(_, _)
Started(cs, S) ==
    IF S = {} THEN 0
    ELSE LET c == CHOOSE x \in S : TRUE
         IN  cs[c].ops + Started(cs, S \ {c})

\* a session that starts a call
Begin(call, op) ==
    [Idle EXCEPT !.op = op, !.ops = call.ops + 1]

\* get_batch_to_sell, lines 80-131; the batches query may raise (lines 130-131)
GetBatchToSell ==
    \E c \in Clerks :
        /\ calls[c].pc = "idle"
        /\ Started(calls, Clerks) < MaxOps
        /\ \E query \in Queries :
           \E user_input_name \in {query[1]}, qty_needed \in {query[2]} :
           \E result \in get_batch_to_sell(products, batches, user_input_name, qty_needed)
                           \cup (IF get_product_by_search(products, user_input_name) = NoMatch
                                 THEN {} ELSE {Refusal("DB Error")}) :
              calls' = [calls EXCEPT ![c] =
                           [Begin(calls[c], "get_batch_to_sell") EXCEPT
                               !.name = user_input_name, !.qty = qty_needed,
                               !.result = result,
                               !.outcome = IF result.error = "" THEN "recommended"
                                           ELSE "refused"]]
        /\ UNCHANGED <<transactions, pc, all_data, offset, requests, df, regressor, last,
                       repeat, row, load_error, shop>>

\* a stock check that lets through a sale of one unit more than the batch holds
InsufficientStockLate(current_qty, qty) == current_qty + 1 < qty

\* pos_system.py line 40
InsufficientStock(current_qty, qty) == current_qty < qty

\* main.py lines 81-86, dashboard.py lines 148-153: the sale of a
\* recommendation takes its batch code and the quantity asked for
HoldsRecommendation(call) == call.op = "get_batch_to_sell" /\ call.result.error = ""

\* process_sale lines 29-42: the batch is read by its code and checked.  A
\* code no batch carries and a batch that holds too little end the call;
\* .single() raises on several rows (lines 63-64)
SaleRead ==
    \E c \in Clerks, from_recommendation \in BOOLEAN :
        /\ calls[c].pc = "idle"
        /\ Started(calls, Clerks) < MaxOps
        /\ from_recommendation => HoldsRecommendation(calls[c])
        /\ \E batch_id \in (IF from_recommendation
                             THEN {calls[c].result.Sell_From_Batch} ELSE SaleCodes),
              qty \in (IF from_recommendation THEN {calls[c].qty} ELSE 1 .. MaxSaleQty) :
              LET found == {i \in DOMAIN batches :
                               batches[i].internal_batch_code = batch_id}
                  call == [Begin(calls[c], "process_sale") EXCEPT
                              !.batch_id = batch_id, !.qty = qty,
                              !.from_recommendation = from_recommendation]
              IN  calls' = [calls EXCEPT ![c] =
                      IF found = {} THEN [call EXCEPT !.outcome = "missing"]
                      ELSE IF Cardinality(found) > 1 THEN [call EXCEPT !.outcome = "failed"]
                      ELSE LET batch == batches[SetMin(found)]
                           IN  IF InsufficientStock(batch.quantity_remaining, qty)
                               THEN [call EXCEPT !.outcome = "insufficient"]
                               ELSE [call EXCEPT !.pc = "checked",
                                                 !.batch_uuid = batch.id,
                                                 !.product_id = batch.product_id,
                                                 !.current_qty = batch.quantity_remaining]]
        /\ UNCHANGED <<transactions, pc, all_data, offset, requests, df, regressor, last,
                       repeat, row, load_error, shop>>

\* process_sale lines 45-55: the transaction, dated now, is inserted
SaleInsert ==
    \E c \in Clerks :
        /\ calls[c].pc = "checked"
        /\ transactions' =
              <<SaleRow(Now, calls[c].qty, ProductOf(products, calls[c].product_id),
                        calls[c].batch_uuid)>> \o transactions
        /\ calls' = [calls EXCEPT ![c].pc = "inserted"]
        /\ UNCHANGED <<pc, all_data, offset, requests, df, regressor, last, repeat, row,
                       load_error, shop>>

\* process_sale lines 58-61: the batch is set to the quantity read minus the
\* quantity sold
SaleUpdate ==
    \E c \in Clerks :
        /\ calls[c].pc = "inserted"
        /\ batches' = [i \in DOMAIN batches |->
                          IF batches[i].id = calls[c].batch_uuid
                          THEN [batches[i] EXCEPT
                                   !.quantity_remaining = calls[c].current_qty - calls[c].qty]
                          ELSE batches[i]]
        /\ calls' = [calls EXCEPT ![c].pc = "idle", ![c].outcome = "complete"]
        /\ UNCHANGED <<transactions, pc, all_data, offset, requests, df, regressor, last,
                       repeat, row, load_error, products, sales, report>>

\* str(next_seq).zfill(3) and int(seq_part): a number as its decimal digits,
\* padded to a width, and back
RECURSIVE Digits(_)
Digits(n) == IF n < 10 THEN <<n>> ELSE Append(Digits(n \div 10), n % 10)

RECURSIVE zfill(_, _)
zfill(digits, width) == IF Len(digits) >= width THEN digits ELSE zfill(<<0>> \o digits, width)

RECURSIVE int(_)
int(digits) ==
    IF digits = <<>> THEN 0
    ELSE 10 * int(SubSeq(digits, 1, Len(digits) - 1)) + digits[Len(digits)]

\* lines 209-210: names of the model are at most five upper-case letters
PCode(name) == name

\* line 212: datetime.now().strftime("%Y%m")
YearMonth(date) == date[1] * 100 + date[2]

\* lines 213, 236: a code is its parts between the dashes
BaseCode(p_code, now_str) == <<p_code, now_str>>
InternalCode(base_code, next_seq) == Append(base_code, zfill(Digits(next_seq), 3))

\* a sequence number that starts over in every call
MaxSeqNone(table, base_code) == 0

\* lines 217-233: the largest sequence number among the codes with the prefix
MaxSeq(table, base_code) ==
    LET seqs == {int(table[i].internal_batch_code[Len(table[i].internal_batch_code)]) :
                   i \in {j \in DOMAIN table :
                             /\ Len(table[j].internal_batch_code) >= 3
                             /\ SubSeq(table[j].internal_batch_code, 1, 2) = base_code}}
    IN  IF seqs = {} THEN 0 ELSE SetMax(seqs)

\* add_batch lines 197-236: the product is looked up, the codes with the
\* prefix are read and the new code gets the next sequence number
AddRead ==
    \E c \in Clerks, product_name \in AddNames, quantity \in AddQuantities :
        /\ calls[c].pc = "idle"
        /\ Started(calls, Clerks) < MaxOps
        /\ LET product == get_product_by_search(products, product_name)
               base_code == BaseCode(PCode(product.name), YearMonth(Now))
               call == [Begin(calls[c], "add_batch") EXCEPT
                           !.name = product_name, !.qty = quantity]
           IN  calls' = [calls EXCEPT ![c] =
                   IF product = NoMatch THEN [call EXCEPT !.outcome = "not found"]
                   ELSE [call EXCEPT !.pc = "counted",
                                     !.product_id = product.id,
                                     !.code = InternalCode(base_code,
                                                           MaxSeq(batches, base_code) + 1)]]
        /\ UNCHANGED <<transactions, pc, all_data, offset, requests, df, regressor, last,
                       repeat, row, load_error, shop>>

\* add_batch lines 239-249: the batch is inserted under the code worked out
AddInsert ==
    \E c \in Clerks :
        /\ calls[c].pc = "counted"
        /\ batches' = Append(batches, Batch(Len(batches) + 1, calls[c].product_id,
                                            calls[c].code, calls[c].qty, Expiry(12)))
        /\ calls' = [calls EXCEPT ![c].pc = "idle", ![c].outcome = "added"]
        /\ UNCHANGED <<transactions, pc, all_data, offset, requests, df, regressor, last,
                       repeat, row, load_error, products, sales, report>>

\* pos_system.py lines 63-64, inventory_manager.py lines 251-252: the next
\* store request of a call raises; the call ends, what it wrote before stays
StoreRaises ==
    \E c \in Clerks :
        /\ calls[c].pc \in {"checked", "inserted", "counted"}
        /\ calls' = [calls EXCEPT ![c].pc = "idle", ![c].outcome = "failed"]
        /\ UNCHANGED <<transactions, pc, all_data, offset, requests, df, regressor, last,
                       repeat, row, load_error, shop>>

(***************************************************************************)
(* Specifications                                                          *)
(***************************************************************************)
\* the engine is constructed over a store, loads it and serves calls
Init ==
    /\ transactions \in SmallStores
    /\ regressor \in Regressors
    /\ pc = "loading"
    /\ all_data = <<>>
    /\ offset = 0
    /\ requests = <<>>
    /\ df = <<>>
    /\ last = NoCall
    /\ repeat = "first"
    /\ row = NoRow
    /\ load_error = FALSE
    /\ products = ProductsTable
    /\ batches = SmallBatches
    /\ sales = 0
    /\ report = NoReport
    /\ calls = NoCalls

Next ==
    \/ LoadPage
    \/ FailPage
    \/ PredictDemand
    \/ CreateFeatures
    \/ GetTopProducts
    \/ PredictNextMonthAllocation

Spec == Init /\ [][Next]_vars

\* the loader over stores of several pages
InitLoad ==
    /\ transactions \in PagedStores
    /\ regressor = "mean"
    /\ pc = "loading"
    /\ all_data = <<>>
    /\ offset = 0
    /\ requests = <<>>
    /\ df = <<>>
    /\ last = NoCall
    /\ repeat = "first"
    /\ row = NoRow
    /\ load_error = FALSE
    /\ products = ProductsTable
    /\ batches = SmallBatches
    /\ sales = 0
    /\ report = NoReport
    /\ calls = NoCalls

NextLoad == LoadPage \/ FailPage

SpecLoad == InitLoad /\ [][NextLoad]_vars

\* the loader as it runs: the while loop (lines 38-64) goes on to its next
\* page request for as long as it has not left the loop
SpecLoadLive == InitLoad /\ [][NextLoad]_vars /\ WF_vars(LoadPage)

\* the engine serving allocation calls
NextAllocation == LoadPage \/ FailPage \/ PredictNextMonthAllocation

SpecAllocation == Init /\ [][NextAllocation]_vars

\* the status classification over a range of stock levels and demands
InitStatus ==
    /\ transactions = <<>>
    /\ regressor = "mean"
    /\ pc = "ready"
    /\ all_data = <<>>
    /\ offset = 0
    /\ requests = <<>>
    /\ df = <<>>
    /\ last = NoCall
    /\ repeat = "first"
    /\ \E s \in 0 .. MaxStock, p \in 0 .. MaxPredicted :
          row = [current_stock |-> s, total_predicted_qty |-> p, status |-> ""]
    /\ load_error = FALSE
    /\ products = ProductsTable
    /\ batches = SmallBatches
    /\ sales = 0
    /\ report = NoReport
    /\ calls = NoCalls

NextStatus == Classify

SpecStatus == InitStatus /\ [][NextStatus]_vars

\* the dashboard process: the engine loads once, then sales and report runs
ReportRegressors == {"trend"}

InitReport ==
    /\ \/ /\ transactions \in ReportStores
          /\ regressor \in ReportRegressors
          /\ batches = SmallBatches
       \/ /\ transactions = ReportStore(ReportSpan, "square", "long")
          /\ regressor = "mean"
          /\ batches \in LargeBatches
    /\ pc = "loading"
    /\ all_data = <<>>
    /\ offset = 0
    /\ requests = <<>>
    /\ df = <<>>
    /\ last = NoCall
    /\ repeat = "first"
    /\ row = NoRow
    /\ load_error = FALSE
    /\ products = ProductsTable
    /\ sales = 0
    /\ report = NoReport
    /\ calls = NoCalls

NextReport == LoadPage \/ FailPage \/ ProcessSale \/ GenerateReport

SpecReport == InitReport /\ [][NextReport]_vars

\* the store used by several sessions: sales, recommendations and restocking
ShopBatches == [SmallBatches EXCEPT ![1].quantity_remaining = 0]

InitShop ==
    /\ transactions = <<>>
    /\ regressor = "mean"
    /\ pc = "ready"
    /\ all_data = <<>>
    /\ offset = 0
    /\ requests = <<<<0, page_size - 1>>>>
    /\ df = <<>>
    /\ last = NoCall
    /\ repeat = "first"
    /\ row = NoRow
    /\ load_error = FALSE
    /\ products = ProductsTable
    /\ batches = ShopBatches
    /\ sales = 0
    /\ report = NoReport
    /\ calls = NoCalls

NextShop ==
    \/ GetBatchToSell
    \/ SaleRead
    \/ SaleInsert
    \/ SaleUpdate
    \/ AddRead
    \/ AddInsert
    \/ StoreRaises

SpecShop == InitShop /\ [][NextShop]_vars

\* the loader of one process paging while other sessions sell: stores around
\* one page whose rows differ from one another
SoldStores == {PagedStore(n, 0, 3) : n \in {page_size - 1, page_size, page_size + 1}}

InitLoadSales ==
    /\ transactions \in SoldStores
    /\ regressor = "mean"
    /\ pc = "loading"
    /\ all_data = <<>>
    /\ offset = 0
    /\ requests = <<>>
    /\ df = <<>>
    /\ last = NoCall
    /\ repeat = "first"
    /\ row = NoRow
    /\ load_error = FALSE
    /\ products = ProductsTable
    /\ batches = ShopBatches
    /\ sales = 0
    /\ report = NoReport
    /\ calls = NoCalls

NextLoadSales ==
    \/ LoadPage
    \/ FailPage
    \/ SaleRead
    \/ SaleInsert
    \/ SaleUpdate
    \/ StoreRaises

SpecLoadSales == InitLoadSales /\ [][NextLoadSales]_vars

TypeOK ==
    /\ pc \in {"loading", "ready"}
    /\ DateDescending(transactions)
    /\ regressor \in Regressors

(***************************************************************************)
(* Properties                                                              *)
(***************************************************************************)
Returned(call) == call.op = "predict_demand" /\ call.raised = ""
Forecast(call) == Returned(call) /\ ~call.none

\* C1: for an entity with at least one loaded event, predict_demand returns
\* (None, "Requires >15 months of history for high accuracy", 0) exactly when
\* the entity's monthly series has fewer than 15 rows; a series of 15 rows or
\* more, 15 included, yields a forecast.
C1_ShortHistoryRefused ==
    (last.op = "predict_demand" /\ FilterProduct(df, last.product_name) # <<>>) =>
        LET series == Resample(FilterProduct(df, last.product_name))
            refused == /\ Returned(last)
                       /\ last.none
                       /\ last.message = "Requires >15 months of history for high accuracy"
                       /\ last.accuracy = 0
        IN  /\ refused <=> Len(series) < 15
            /\ Len(series) >= 15 =>
                  /\ Forecast(last)
                  /\ last.monthly_sales = series
                  /\ Len(last.forecast_df) = last.months_ahead

C1_Witness ==
    /\ Forecast(last)
    /\ Len(last.monthly_sales) = 15
    /\ Len(last.forecast_df) = last.months_ahead
    /\ last.months_ahead >= 1

\* C2: every forecast point of a successful predict_demand call is an integer
\* >= 0, whatever the regressor put out for it (negative, fractional): it is
\* the output truncated toward zero, and 0 for an output below 1.
C2_ForecastNonNegative ==
    Forecast(last) =>
        \A k \in 1 .. Len(last.forecast_df) :
            LET q == last.forecast_df[k].Predicted_Demand
                out2 == last.raw[k]
            IN  /\ q \in Nat
                /\ out2 < 2 => q = 0
                /\ out2 >= 2 => (2 * q <= out2 /\ out2 < 2 * q + 2)

C2_Witness ==
    /\ Forecast(last)
    /\ \E k \in 1 .. Len(last.forecast_df) :
          /\ last.raw[k] < 0
          /\ last.raw[k] % 2 = 1
          /\ last.forecast_df[k].Predicted_Demand = 0

\* C3: for stock and predicted demand >= 0 the status is one of three values:
\* Understock iff stock - predicted < 0; Overstocked iff stock - predicted >
\* 2 * predicted and predicted > 5; Sufficient otherwise.  (100, 40), (10, 40),
\* (100, 10), (100, 3) give Sufficient, Understock, Overstocked, Sufficient.
C3_StatusClassification ==
    row.status # "" =>
        LET s == row.current_stock
            p == row.total_predicted_qty
        IN  /\ row.status \in {"Understock", "Overstocked", "Sufficient"}
            /\ row.status = "Understock" <=> s - p < 0
            /\ row.status = "Overstocked" <=> (s - p > 2 * p /\ p > 5)
            /\ p <= 5 => row.status # "Overstocked"
            /\ (s = 100 /\ p = 40) => row.status = "Sufficient"
            /\ (s = 10 /\ p = 40) => row.status = "Understock"
            /\ (s = 100 /\ p = 10) => row.status = "Overstocked"
            /\ (s = 100 /\ p = 3) => row.status = "Sufficient"

C3_Witness ==
    row = [current_stock |-> 100, total_predicted_qty |-> 10, status |-> "Overstocked"]

\* C4: get_top_products(n), n >= 0, returns at most n names of the event
\* table, each once, in order of non-increasing total quantity, and no name
\* left out has a larger total than a name returned; an empty table gives
\* the empty sequence.
C4_TopProducts ==
    last.op = "get_top_products" =>
        LET top == last.top_products
            total(name) == SumSeq([i \in 1 .. Len(df) |->
                              IF df[i].Product_Name = name THEN df[i].Qty_Sold ELSE 0])
        IN  /\ Len(top) <= last.n
            /\ Len(top) = Min2(last.n, Cardinality(NamesIn(df)))
            /\ \A i \in 1 .. Len(top) : top[i] \in NamesIn(df)
            /\ \A i, j \in 1 .. Len(top) : i # j => top[i] # top[j]
            /\ \A i \in 1 .. Len(top) - 1 : total(top[i]) >= total(top[i + 1])
            /\ \A name \in NamesIn(df) :
                  (\A i \in 1 .. Len(top) : top[i] # name) =>
                      \A i \in 1 .. Len(top) : total(name) <= total(top[i])
            /\ df = <<>> => top = <<>>

C4_Witness ==
    /\ last.op = "get_top_products"
    /\ last.n = 2
    /\ Cardinality(NamesIn(df)) = 3
    /\ Len(last.top_products) = 2
    /\ TotalSold(df, last.top_products[1]) > TotalSold(df, last.top_products[2])
    /\ \E name \in NamesIn(df) : TotalSold(df, name) < TotalSold(df, last.top_products[2])

\* the calls that build features: create_features itself, and a predict_demand
\* that got past its early exits
BuiltFeatures(call) == call.op = "create_features" \/ Forecast(call)

\* C5: for a monthly series of length L >= 12, create_features followed by
\* dropna leaves exactly L - 12 rows, the rows at 0-based indexes 12 .. L-1 in
\* their order; a series of 15 months leaves 3.
C5_TrainingRows ==
    (BuiltFeatures(last) /\ Len(last.monthly_sales) >= 12) =>
        LET L == Len(last.monthly_sales)
        IN  /\ Len(last.training) = L - 12
            /\ \A j \in 1 .. Len(last.training) :
                  /\ last.training[j] = last.features[12 + j]
                  /\ last.training[j].Date = last.monthly_sales[12 + j].Date
                  /\ last.training[j].Qty_Sold = last.monthly_sales[12 + j].Qty_Sold
            /\ L = 15 => Len(last.training) = 3

C5_Witness ==
    /\ Forecast(last)
    /\ Len(last.monthly_sales) = 15
    /\ Len(last.training) = 3
    /\ last.training[1].Date = last.monthly_sales[13].Date

\* C6: at every row i (0-based) of a monthly series create_features sets
\* lag_12 = quantity[i-12] (undefined for i < 12), lag_1 = quantity[i-1]
\* (undefined for i < 1), rolling_mean_3 = the mean of quantity[i-3 .. i-1]
\* (undefined for i < 3), and leaves the target equal to quantity[i].
\* Rows are numbered from 1 here: row r is index i = r - 1.
C6_FeatureValues ==
    BuiltFeatures(last) =>
        LET q == QtyColumn(last.monthly_sales)
            f == last.features
        IN  /\ Len(f) = Len(q)
            /\ \A r \in 1 .. Len(f) :
                  /\ f[r].Qty_Sold = q[r]
                  /\ f[r].Date = last.monthly_sales[r].Date
                  /\ f[r].Month = last.monthly_sales[r].Date.month
                  /\ f[r].Year = last.monthly_sales[r].Date.year
                  /\ f[r].Lag_12 = IF r - 1 < 12 THEN NaN ELSE Cell(q[r - 12], 1)
                  /\ f[r].Lag_1 = IF r - 1 < 1 THEN NaN ELSE Cell(q[r - 1], 1)
                  /\ f[r].Rolling_Mean_3 =
                        IF r - 1 < 3 THEN NaN
                        ELSE Cell(q[r - 3] + q[r - 2] + q[r - 1], 3)

\* a row whose own quantity differs from every feature built for it
C6_Witness ==
    /\ BuiltFeatures(last)
    /\ \E r \in 13 .. Len(last.features) :
          LET f == last.features[r]
          IN  /\ ~f.Lag_12.nan /\ f.Lag_12.num # f.Qty_Sold
              /\ f.Lag_1.num # f.Qty_Sold
              /\ f.Lag_1.num # f.Lag_12.num
              /\ f.Rolling_Mean_3.num # 3 * f.Qty_Sold
              /\ f.Rolling_Mean_3.num # 3 * f.Lag_1.num
    /\ last.features[3].Rolling_Mean_3.nan
    /\ ~last.features[4].Rolling_Mean_3.nan

\* C7: at step k of the recursive loop the feature row comes from the running
\* history, the monthly series followed by the k-1 earlier predictions: lag_1
\* is its last quantity, lag_12 the quantity 12 rows from its end,
\* rolling_mean_3 the mean of its last 3 rows; the clamped prediction is then
\* appended, so the history ends with length L + months_ahead, its first L
\* rows the monthly series.
C7_RunningHistory ==
    Forecast(last) =>
        LET L == Len(last.monthly_sales)
            h == last.months_ahead
            pred(k) == last.forecast_df[k].Predicted_Demand
            run == QtyColumn(last.monthly_sales) \o [k \in 1 .. h |-> pred(k)]
        IN  /\ Len(last.inputs) = h
            /\ Len(last.history) = L + h
            /\ SubSeq(last.history, 1, L) = last.monthly_sales
            /\ \A k \in 1 .. h :
                  LET n == L + k - 1
                  IN  /\ last.inputs[k].Lag_1 = Cell(run[n], 1)
                      /\ last.inputs[k].Lag_12 = Cell(run[n - 11], 1)
                      /\ last.inputs[k].Rolling_Mean_3 =
                            Cell(run[n - 2] + run[n - 1] + run[n], 3)
                      /\ last.inputs[k].Month = last.forecast_df[k].Date.month
                      /\ last.inputs[k].Year = last.forecast_df[k].Date.year
                      /\ pred(k) = ClampQty(last.raw[k])
                      /\ last.history[L + k] =
                            [Date |-> last.forecast_df[k].Date, Qty_Sold |-> pred(k)]

\* a second step whose lag_1 is the first prediction, not the last real month
C7_Witness ==
    /\ Forecast(last)
    /\ last.months_ahead >= 2
    /\ LET L == Len(last.monthly_sales)
       IN  /\ last.forecast_df[1].Predicted_Demand # last.monthly_sales[L].Qty_Sold
           /\ last.inputs[2].Lag_1.num = last.forecast_df[1].Predicted_Demand
           /\ last.inputs[2].Lag_12.num = last.monthly_sales[L - 10].Qty_Sold

C9_NoDataResult ==
    (last.op = "predict_demand" /\ FilterProduct(df, last.product_name) = <<>>) =>
        /\ Returned(last)
        /\ last.none
        /\ last.message = "Not enough data"
        /\ last.accuracy = 0
        /\ last.steps \cap {"resample", "features", "fit", "accuracy", "forecast"} = {}

\* C10: over a store of N rows that does not change, the loader asks for the
\* consecutive ranges [0, 999], [1000, 1999], ..., goes on after a full page
\* only, stops at the first page that is empty or short, and returns exactly
\* N events, the i-th with the date, quantity and entity name of the i-th row.
C10_LoaderComplete ==
    LET N == Len(transactions)
        R == Len(requests)
        rows(j) == Min2(N, j * 1000) - Min2(N, (j - 1) * 1000)
    IN  /\ \A j \in 1 .. R : requests[j] = <<(j - 1) * 1000, j * 1000 - 1>>
        /\ \A j \in 1 .. R - 1 : rows(j) = 1000
        /\ pc = "loading" => (R = 0 \/ rows(R) = 1000) /\ offset = R * 1000
        /\ (pc = "ready" /\ ~load_error) =>
              /\ R >= 1
              /\ rows(R) < 1000
              /\ Len(df) = N
              /\ \A i \in 1 .. N :
                    /\ df[i].Date.year = transactions[i].transaction_date[1]
                    /\ df[i].Date.month = transactions[i].transaction_date[2]
                    /\ df[i].Date.day = transactions[i].transaction_date[3]
                    /\ df[i].Qty_Sold = transactions[i].quantity
                    /\ df[i].Product_Name =
                          IF transactions[i].products.linked
                          THEN transactions[i].products.name ELSE "Unknown"

\* a store of exactly two full pages: the third page comes back empty
C10_Witness ==
    /\ pc = "ready"
    /\ Len(transactions) = 2 * page_size
    /\ Len(requests) = 3
    /\ Len(df) = 2 * page_size
    /\ \E i \in 1 .. Len(df) : df[i].Product_Name = "Unknown"

\* C11: when a page request of the loader fails, the loader raises nothing and
\* returns an empty table, not the pages it had fetched; afterwards
\* get_top_products returns the empty sequence and predict_demand returns the
\* no-data result (None, "Not enough data", 0) for every entity.
C11_FailedLoadIsEmpty ==
    load_error =>
        /\ pc = "ready"
        /\ df = <<>>
        /\ last.op = "get_top_products" => last.top_products = <<>>
        /\ last.op = "predict_demand" =>
              /\ Returned(last)
              /\ last.none
              /\ last.message = "Not enough data"
              /\ last.accuracy = 0

\* what does hold after a failed load: the table is empty although pages may
\* have been fetched, the ranking is empty, and predict_demand raises
C11_FailedLoadRaises ==
    load_error =>
        /\ pc = "ready"
        /\ df = <<>>
        /\ last.op = "get_top_products" => last.top_products = <<>>
        /\ last.op = "predict_demand" => last.raised = "KeyError"
\* the position of an entity in a ranking
IndexIn(ranked, name) == SetMin({k \in DOMAIN ranked : ranked[k] = name})

\* what predict_demand returns for an entity of the last report run
RunResult(name) == predict_demand(df, regressor, name, report.run.months_ahead)

\* C12: during one report generation, when training or prediction fails with an
\* error for one entity, the remaining entities are still processed and the
\* rows of the entities that succeeded are collected: the batch is not aborted.
C12_FailureIsolated ==
    (report.state # "none" /\ report.raised = "XGBoostError") =>
        /\ report.state = "stored"
        /\ \A k \in DOMAIN report.run.ranked :
              LET name == report.run.ranked[k]
              IN  (/\ name # report.at
                   /\ Forecast(RunResult(name))
                   /\ \E i \in DOMAIN products : products[i].name = name)
                  => \E i \in DOMAIN report.rows : report.rows[i].Medicine = name

\* C13: the report has at most one row per ranked entity, the rows are in the
\* order of the ranking, and an entity for which predict_demand takes an early
\* exit has no row (not even one with predicted demand 0).
C13_ReportRows ==
    report.state = "stored" =>
        LET ranked == report.run.ranked
            rows == report.rows
        IN  /\ \A i \in DOMAIN rows : \E k \in DOMAIN ranked : ranked[k] = rows[i].Medicine
            /\ \A i, j \in DOMAIN rows :
                  i < j => IndexIn(ranked, rows[i].Medicine) < IndexIn(ranked, rows[j].Medicine)
            /\ \A k \in DOMAIN ranked :
                  RunResult(ranked[k]).none =>
                      \A i \in DOMAIN rows : rows[i].Medicine # ranked[k]

\* a report of two rows, in the order of a ranking that also holds an entity
\* refused for its short history
C13_Witness ==
    /\ report.state = "stored"
    /\ Len(report.rows) = 2
    /\ Len(report.run.ranked) = 3
    /\ \E k \in DOMAIN report.run.ranked :
          /\ RunResult(report.run.ranked[k]).none
          /\ RunResult(report.run.ranked[k]).message # "Not enough data"

\* C14: a row's predicted demand is the sum of all forecast points of the entity
\* in the cumulative view; in the view of one month it is the forecast point of
\* that month, or 0 when that month is not among the forecast months.
C14_PredictedDemand ==
    report.state = "stored" =>
        \A i \in DOMAIN report.rows :
            LET points == RunResult(report.rows[i].Medicine).forecast_df
                view == report.run.selected_view
                same(k) == /\ MonthNames[points[k].Date.month] = view[1]
                           /\ points[k].Date.year = view[2]
                demand == report.rows[i].Predicted_Demand
            IN  IF view = <<"Cumulative", report.run.months_ahead>>
                THEN demand = SumSeq([k \in DOMAIN points |-> points[k].Predicted_Demand])
                ELSE /\ \A k \in DOMAIN points : same(k) => demand = points[k].Predicted_Demand
                     /\ (\A k \in DOMAIN points : ~same(k)) => demand = 0

\* the view of one month that is the entity's second forecast month, with a
\* demand above 0 that differs from the first month's
C14_Witness ==
    /\ report.state = "stored"
    /\ report.run.selected_view[1] # "Cumulative"
    /\ \E i \in DOMAIN report.rows :
          LET points == RunResult(report.rows[i].Medicine).forecast_df
          IN  /\ Len(points) >= 2
              /\ MonthNames[points[2].Date.month] = report.run.selected_view[1]
              /\ report.rows[i].Predicted_Demand = points[2].Predicted_Demand
              /\ points[2].Predicted_Demand > 0
              /\ points[2].Predicted_Demand # points[1].Predicted_Demand

\* the stock the store holds of a product: all its batches that hold stock
StockHeld(table, product_id) ==
    LET holding == SelectSeq(table, LAMBDA b : b.product_id = product_id
                                               /\ b.quantity_remaining > 0)
    IN  SumSeq([i \in DOMAIN holding |-> holding[i].quantity_remaining])

\* C15: in every report row, current_stock is the sum of quantity_remaining
\* over all batches of the entity that hold stock at the time of the read,
\* however many batches the store holds in total.
C15_CurrentStock ==
    (report.state = "stored" /\ report.run.sales_before = sales) =>
        \A i \in DOMAIN report.rows :
            \A p \in DOMAIN products :
                products[p].name = report.rows[i].Medicine =>
                    report.rows[i].Current_Stock = StockHeld(batches, products[p].id)

\* what does hold: the stock is right when the batches table fits one request
C15_CurrentStockOneRequest ==
    (report.state = "stored" /\ report.run.sales_before = sales
        /\ Len(batches) <= StoreMaxRows) =>
        \A i \in DOMAIN report.rows :
            \A p \in DOMAIN products :
                products[p].name = report.rows[i].Medicine =>
                    report.rows[i].Current_Stock = StockHeld(batches, products[p].id)

\* C16: sales events are not cached across report runs: every sale recorded in
\* the store before a report run starts is part of the event table the run
\* ranks and forecasts from.
C16_NoStaleEvents ==
    (report.state # "none" /\ ~load_error /\ report.run.sales_before = sales) =>
        /\ report.run.events = Len(transactions)
        /\ df = DataFrame(AppendChunk(<<>>, transactions))

\* what does hold: a run uses the table loaded when the engine was constructed,
\* without the sales the process recorded since
C16_EngineLoadedOnce ==
    (report.state # "none" /\ ~load_error /\ report.run.sales_before = sales) =>
        /\ report.run.events = Len(transactions) - sales
        /\ df = DataFrame(AppendChunk(<<>>, SubSeq(transactions, sales + 1, Len(transactions))))
\* C17: predict_next_month_allocation returns (0, 0) whenever predict_demand
\* with months_ahead = 1 yields no forecast, and otherwise returns the single
\* forecast point's quantity with the accuracy predict_demand reports.
C17_Allocation ==
    last.op = "predict_next_month_allocation" =>
        LET result == predict_demand(df, regressor, last.product_name, 1)
        IN  /\ last.raised = ""
            /\ IF Forecast(result)
               THEN last.result = <<result.forecast_df[1].Predicted_Demand, result.accuracy>>
               ELSE last.result = <<0, 0>>

\* what does hold: the claim for the calls in which predict_demand returns
C17_AllocationWhenReturned ==
    last.op = "predict_next_month_allocation" =>
        LET result == predict_demand(df, regressor, last.product_name, 1)
        IN  IF result.raised # "" THEN last.raised = result.raised
            ELSE /\ last.raised = ""
                 /\ IF Forecast(result)
                    THEN last.result = <<result.forecast_df[1].Predicted_Demand, result.accuracy>>
                    ELSE last.result = <<0, 0>>

\* the calendar months in which an entity has events
SaleMonths(name) ==
    LET events == FilterProduct(df, name)
    IN  {MonthIndex(events[i].Date) : i \in DOMAIN events}

\* a call of predict_demand that built the monthly series
BuiltSeries(call) == Returned(call) /\ call.monthly_sales # <<>>

\* C18 as stated: the monthly series has a row only for the calendar months in
\* which the entity has an event, a month without sales between the first and
\* the last sale month gets no zero row, and the length counted against the
\* 15-month threshold is the number of months that have sales.
C18_SalesMonthsOnly ==
    BuiltSeries(last) =>
        LET months == SaleMonths(last.product_name)
        IN  /\ Len(last.monthly_sales) = Cardinality(months)
            /\ \A i \in DOMAIN last.monthly_sales :
                  MonthIndex(last.monthly_sales[i].Date) \in months
            /\ last.none <=> Cardinality(months) < 15

\* C18: the monthly series has one row for every calendar month from the
\* entity's first sale month to its last; a month without sales in between
\* gets a row of quantity 0, and the length counted against the 15-month
\* threshold is the number of calendar months spanned.
C18_MonthsSpanned ==
    BuiltSeries(last) =>
        LET months == SaleMonths(last.product_name)
            events == FilterProduct(df, last.product_name)
            lo == SetMin(months)
            hi == SetMax(months)
            sold(m) == SumSeq(QtyColumn(SelectSeq(events, LAMBDA r : MonthIndex(r.Date) = m)))
        IN  /\ Len(last.monthly_sales) = hi - lo + 1
            /\ \A i \in DOMAIN last.monthly_sales :
                  /\ MonthIndex(last.monthly_sales[i].Date) = lo + i - 1
                  /\ last.monthly_sales[i].Date.day = 1
                  /\ last.monthly_sales[i].Qty_Sold = sold(lo + i - 1)
                  /\ (lo + i - 1) \notin months => last.monthly_sales[i].Qty_Sold = 0
            /\ last.none <=> hi - lo + 1 < 15

\* a forecast from 15 calendar months of which fewer than 15 have sales
C18_Witness ==
    /\ Forecast(last)
    /\ Len(last.monthly_sales) = 15
    /\ Cardinality(SaleMonths(last.product_name)) < 15
    /\ \E i \in 2 .. 14 :
          /\ MonthIndex(last.monthly_sales[i].Date) \notin SaleMonths(last.product_name)
          /\ last.monthly_sales[i].Qty_Sold = 0

\* C19 as stated: the second element of a successful predict_demand result is
\* the mean, truncated to an integer, of the quantities of all months of the
\* entity's monthly series.
C19_MeanOfAllMonths ==
    Forecast(last) =>
        last.avg_sales =
            SumSeq(QtyColumn(last.monthly_sales)) \div Len(last.monthly_sales)

\* C19: the second element of a successful predict_demand result is the mean,
\* truncated to an integer, of the quantities of the training months: the
\* months of the series from the 13th on, whose features are all defined.
C19_MeanOfTrainingMonths ==
    Forecast(last) =>
        LET L == Len(last.monthly_sales)
            recent == SubSeq(last.monthly_sales, 13, L)
            total == SumSeq(QtyColumn(recent))
        IN  /\ L >= 15
            /\ last.avg_sales \in Nat
            /\ last.avg_sales * (L - 12) <= total
            /\ total < (last.avg_sales + 1) * (L - 12)

\* a forecast whose average differs from the mean over all months
C19_Witness ==
    /\ Forecast(last)
    /\ last.avg_sales #
          SumSeq(QtyColumn(last.monthly_sales)) \div Len(last.monthly_sales)
    /\ last.avg_sales > 0

\* C20: a store row whose linked product is missing is kept as an event named
\* "Unknown" with the row's own date and quantity; it neither fails the load
\* nor drops any other row.
C20_OrphanKept ==
    (pc = "ready" /\ ~load_error) =>
        /\ Len(df) = Len(transactions)
        /\ \A i \in DOMAIN transactions :
              IF transactions[i].products.linked
              THEN df[i].Product_Name = transactions[i].products.name
              ELSE /\ df[i].Product_Name = "Unknown"
                   /\ df[i].Qty_Sold = transactions[i].quantity
                   /\ df[i].Date = [year |-> transactions[i].transaction_date[1],
                                     month |-> transactions[i].transaction_date[2],
                                     day |-> transactions[i].transaction_date[3]]

\* a load of three pages whose orphan row is the first row of the second page
C20_Witness ==
    /\ pc = "ready"
    /\ ~load_error
    /\ Len(requests) = 3
    /\ Len(df) = 2 * page_size
    /\ ~transactions[page_size + 1].products.linked
    /\ df[page_size + 1].Product_Name = "Unknown"
    /\ df[page_size].Product_Name # "Unknown"
    /\ df[page_size + 2].Product_Name # "Unknown"

\* the table the engine holds once loading is over (lines 66, 73)
Loaded == IF load_error THEN <<>> ELSE DataFrame(all_data)

\* C21: predict_demand, predict_next_month_allocation and get_top_products
\* leave the loaded table as it is and write nothing to the store, so what
\* predict_demand returns for an entity is what it returns on the table as
\* loaded, whatever calls for other entities came before it.
C21_CallsLeaveTable ==
    [][(pc = "ready" /\ last' # last) =>
          /\ df' = df
          /\ df = Loaded
          /\ transactions' = transactions
          /\ last'.op = "predict_demand" =>
                last' = predict_demand(Loaded, regressor, last'.product_name,
                                       last'.months_ahead)
          /\ last'.op = "predict_next_month_allocation" =>
                last' = predict_next_month_allocation(Loaded, regressor,
                                                      last'.product_name)]_vars

C21_Witness ==
    /\ repeat = "other"
    /\ Forecast(last)
    /\ last.months_ahead >= 2
    /\ \E k \in 1 .. Len(last.forecast_df) : last.forecast_df[k].Predicted_Demand > 0

\* C22: a predict_demand call that returns a forecast for months_ahead >= 1
\* returns exactly months_ahead points, and their months are the consecutive
\* calendar months right after the last month of the monthly series (the
\* entity's last sale month), in chronological order, none repeated or skipped.
C22_ConsecutiveMonths ==
    Forecast(last) =>
        LET series == last.monthly_sales
            last_month == MonthIndex(series[Len(series)].Date)
        IN  /\ last_month = SetMax(SaleMonths(last.product_name))
            /\ Len(last.forecast_df) = last.months_ahead
            /\ \A k \in 1 .. last.months_ahead :
                  /\ MonthIndex(last.forecast_df[k].Date) = last_month + k
                  /\ last.forecast_df[k].Date.day = 1
                  /\ last.forecast_df[k].Date.month \in 1 .. 12

\* a forecast of several months that runs over the end of a calendar year
C22_Witness ==
    /\ Forecast(last)
    /\ last.months_ahead >= 2
    /\ last.monthly_sales[Len(last.monthly_sales)].Date.month = 12
    /\ last.forecast_df[1].Date.month = 1
    /\ last.forecast_df[1].Date.year =
          last.monthly_sales[Len(last.monthly_sales)].Date.year + 1
    /\ last.forecast_df[2].Date.month = 2

\* the feature columns of a row, as the model is fitted on them (lines 124, 178)
FeatureColumns(r) ==
    [Month |-> r.Month, Year |-> r.Year, Lag_12 |-> r.Lag_12, Lag_1 |-> r.Lag_1,
     Rolling_Mean_3 |-> r.Rolling_Mean_3]

\* C24: the feature row the recursive loop builds for the next month is the
\* row create_features computes for that month once it is appended to the
\* running history: for a running history of length L >= 15 (0-based rows),
\* lag_12 = quantity[L-12], lag_1 = quantity[L-1] and rolling_mean_3 = the
\* mean of quantity[L-3 .. L-1].
C24_LoopRowIsFeatureRow ==
    Forecast(last) =>
        \A k \in 1 .. last.months_ahead :
            LET L == Len(last.monthly_sales) + k - 1
                appended == SubSeq(last.history, 1, L + 1)
                q == QtyColumn(appended)
                built == create_features(appended)[L + 1]
            IN  /\ L >= MinMonths
                /\ appended[L + 1].Date = last.forecast_df[k].Date
                /\ FeatureColumns(last.inputs[k]) = FeatureColumns(built)
                /\ last.inputs[k].Lag_12 = Cell(q[L - 12 + 1], 1)
                /\ last.inputs[k].Lag_1 = Cell(q[L - 1 + 1], 1)
                /\ last.inputs[k].Rolling_Mean_3 =
                      Cell(q[L - 3 + 1] + q[L - 2 + 1] + q[L - 1 + 1], 3)

\* a later step of the loop whose three features differ from one another
C24_Witness ==
    /\ Forecast(last)
    /\ last.months_ahead >= 2
    /\ LET x == last.inputs[last.months_ahead]
       IN  /\ x.Lag_12.num # x.Lag_1.num
           /\ x.Rolling_Mean_3.num # 3 * x.Lag_1.num
           /\ x.Rolling_Mean_3.num # 3 * x.Lag_12.num
           /\ x.Lag_1.num > 0

\* C25: over a finite store of N rows that does not change the page loop
\* comes to an end, after exactly floor(N / page_size) + 1 page requests when
\* no request fails, and the offset moves on by the page size after each full
\* page.
C25_LoopTerminates ==
    /\ <>(pc = "ready")
    /\ []((pc = "ready" /\ ~load_error) =>
            Len(requests) = Len(transactions) \div page_size + 1)
    /\ [][(pc = "loading" /\ pc' = "loading") =>
             /\ offset' = offset + page_size
             /\ Len(requests') = Len(requests) + 1
             /\ Len(all_data') = Len(all_data) + page_size
             /\ transactions' = transactions]_vars

\* a store of two full pages: the third request finds nothing
C25_Witness ==
    /\ pc = "ready"
    /\ ~load_error
    /\ Len(transactions) = 2 * page_size
    /\ Len(requests) = 3
    /\ offset = 2 * page_size

\* a step in which session c makes the call op, or starts it
Calls(c, op) == calls'[c].ops = calls[c].ops + 1 /\ calls'[c].op = op

\* C23: get_batch_to_sell recommends, among the batches of the matched
\* product that hold stock, one that no other of them expires before; it
\* returns an error string and no recommendation when no product matches,
\* when no batch of the product holds stock, or when the product's batches
\* together hold less than the quantity asked for.
C23_FirstExpiryFirstOut ==
    [][\A c \in Clerks :
          Calls(c, "get_batch_to_sell") =>
             LET r == calls'[c].result
                 matched == {products[m].id : m \in {i \in DOMAIN products :
                                                       products[i].name = calls'[c].name}}
                 stocked == {i \in DOMAIN batches :
                               /\ batches[i].product_id \in matched
                               /\ batches[i].quantity_remaining > 0}
                 total == SumSeq([i \in DOMAIN batches |->
                                   IF i \in stocked THEN batches[i].quantity_remaining
                                   ELSE 0])
             IN  /\ (matched = {} \/ stocked = {} \/ total < calls'[c].qty) =>
                        r.error # ""
                 /\ r.error # "" =>
                        /\ r.Sell_From_Batch = <<>>
                        /\ r.Batch_UUID = NoBatch
                        /\ calls'[c].outcome = "refused"
                 /\ r.error = "" =>
                        \E i \in stocked :
                           /\ r.Batch_UUID = batches[i].id
                           /\ r.Sell_From_Batch = batches[i].internal_batch_code
                           /\ \A j \in stocked :
                                 DateGeq(batches[j].expiry_date, batches[i].expiry_date)]_vars

\* one session is told to sell from the batch of A that expires first, the
\* later row of the table, the other is refused for lack of stock
C23_Witness ==
    \E c, d \in Clerks :
        /\ calls[c].op = "get_batch_to_sell"
        /\ calls[c].outcome = "recommended"
        /\ calls[c].result.Sell_From_Batch = <<"A", 2>>
        /\ \E i, j \in DOMAIN batches :
              /\ i < j
              /\ batches[i].internal_batch_code = <<"A", 1>>
              /\ batches[i].quantity_remaining > 0
              /\ batches[j].internal_batch_code = <<"A", 2>>
        /\ calls[d].op = "get_batch_to_sell"
        /\ calls[d].result.error = "INSUFFICIENT STOCK"

\* C28: whenever get_batch_to_sell returns a recommendation for qty_needed,
\* the recommended batch alone holds at least qty_needed units, so that
\* process_sale of that quantity on that batch, with no sale in between, is
\* not rejected for insufficient stock.
C28_RecommendedBatchSuffices ==
    [][\A c \in Clerks :
          /\ (Calls(c, "get_batch_to_sell") /\ calls'[c].result.error = "") =>
                \E i \in DOMAIN batches :
                   /\ batches[i].id = calls'[c].result.Batch_UUID
                   /\ batches[i].quantity_remaining >= calls'[c].qty
          /\ (/\ Calls(c, "process_sale")
              /\ calls'[c].from_recommendation
              /\ transactions = <<>>
              /\ batches = ShopBatches) =>
                calls'[c].outcome # "insufficient"]_vars

\* the units the SALE transactions of the store record for a batch
Sold(batch_uuid) ==
    SumSeq([k \in DOMAIN transactions |->
              IF transactions[k].batch_id = batch_uuid THEN transactions[k].quantity ELSE 0])

\* C27: after any sequence of process_sale calls, calls on one batch whose
\* steps interleave and calls whose inventory update fails after the insert
\* included, every batch holds its initial quantity less the quantities of
\* the SALE transactions recorded for it.
C27_StockAccounted ==
    (\A c \in Clerks : calls[c].pc = "idle") =>
        \A i \in DOMAIN ShopBatches :
            ShopBatches[i].quantity_remaining =
                batches[i].quantity_remaining + Sold(batches[i].id)

\* C30: quantity_remaining of every batch is >= 0 in every reachable state,
\* whatever the interleaving of process_sale calls of one unit or more on
\* batches that start non-negative; and a sale rejected because no batch
\* carries the code or because the batch holds too little inserts no
\* transaction and changes no batch.
C30_StockNonNegative ==
    /\ [](\A i \in DOMAIN batches : batches[i].quantity_remaining >= 0)
    /\ [][\A c \in Clerks :
             Calls(c, "process_sale") =>
                LET found == {i \in DOMAIN batches :
                                batches[i].internal_batch_code = calls'[c].batch_id}
                    rejected == calls'[c].outcome \in {"missing", "insufficient"}
                IN  /\ calls'[c].qty >= 1
                    /\ rejected <=>
                          \/ found = {}
                          \/ \E i \in found :
                                batches[i].quantity_remaining < calls'[c].qty
                    /\ rejected =>
                          /\ transactions' = transactions
                          /\ batches' = batches
                          /\ calls'[c].pc = "idle"]_vars

\* two sales of one batch that both read it before either wrote, and both
\* went through: more is recorded as sold than the batch held
C30_Witness ==
    \E c, d \in Clerks :
        /\ c # d
        /\ calls[c].op = "process_sale" /\ calls[c].outcome = "complete"
        /\ calls[d].op = "process_sale" /\ calls[d].outcome = "complete"
        /\ calls[c].batch_uuid = calls[d].batch_uuid
        /\ calls[c].current_qty = calls[d].current_qty
        /\ calls[c].qty + calls[d].qty > calls[c].current_qty
        /\ \E i \in DOMAIN batches :
              /\ batches[i].id = calls[c].batch_uuid
              /\ batches[i].quantity_remaining >= 0

\* the batches add_batch created: their codes have the three parts
Created == {i \in DOMAIN batches : Len(batches[i].internal_batch_code) >= 3}

\* C29: the internal batch codes add_batch creates are pairwise distinct
\* after any sequence of add_batch calls, two calls for the same product
\* prefix and month that interleave between reading the largest sequence
\* number and inserting included, and each new code carries the largest
\* existing sequence number plus one.
C29_CodesDistinct ==
    /\ [](\A i, j \in Created :
             i # j => batches[i].internal_batch_code # batches[j].internal_batch_code)
    /\ [][\A c \in Clerks :
             (calls[c].pc = "counted" /\ calls'[c].outcome = "added") =>
                LET code == batches'[Len(batches')].internal_batch_code
                    base_code == SubSeq(code, 1, 2)
                IN  /\ Len(batches') = Len(batches) + 1
                    /\ base_code = <<calls[c].name, YearMonth(Now)>>
                    /\ int(code[3]) = MaxSeq(batches, base_code) + 1]_vars

\* C26: the loaded event table holds no store row twice and misses no row
\* that was in the store when loading began, also when process_sale inserts
\* transactions, dated now and so first in the date-descending order, between
\* two page requests.  The rows of the store at the start differ from one
\* another and are dated before now, the inserted rows are those of a batch.
C26_EachRowOnce ==
    (pc = "ready" /\ ~load_error) =>
        LET began == SelectSeq(transactions, LAMBDA r : r.batch_id = NoBatch)
            inserted == Len(transactions) - Len(began)
            old == SelectSeq(all_data, LAMBDA ev : ev.Date # Now)
        IN  /\ {old[i] : i \in DOMAIN old} = {ToEvent(began[i]) : i \in DOMAIN began}
            /\ Len(old) = Len(began)
            /\ Len(all_data) - Len(old) <= inserted
====
